---- MODULE Spec2Model ----
(***************************************************************************)
(* useMutation() of pinia-colada (src/src/use-mutation.test-d.ts, lines    *)
(* 85-151): the mutation controller, its pending-promise race check and    *)
(* the invalidation of query keys after a successful mutation.             *)
(*                                                                         *)
(* One controller is the closure state of one useMutation() call: the      *)
(* three shallowRefs status, data, error and the local pendingPromise.     *)
(* Every mutate() call creates one promise chain                           *)
(*     options.mutation(...args).then(onFulfilled).catch(onRejected)       *)
(* whose two reactions run as separate microtasks, so other code (another  *)
(* mutate(), a reset()) can run between the settlement of the user         *)
(* operation, the .then reaction and the .catch reaction.                  *)
(*                                                                         *)
(* The user operation is taken at its declared type: it returns a promise  *)
(* that later fulfils or rejects.  The keys function and the store's       *)
(* invalidateEntry are synchronous calls that return or throw.             *)
(***************************************************************************)
EXTENDS Integers, Sequences, FiniteSets, TLC

\* Bound on the number of mutate() calls of one run (over all controllers).
MaxCalls == 3

\* Values of JavaScript that the controller stores.
Undefined == "undefined"
Null == "null"

\* Inputs.  Every mutate() call passes its own argument list and every
\* settlement of the user operation delivers its own value or error object,
\* so a value identifies the call it belongs to.
ArgsOf(i) == "args" \o ToString(i)
ResultOf(i) == "result" \o ToString(i)
ErrorOf(i) == "error" \o ToString(i)

\* What the invalidation phase can throw.
KeysError == "KeysError"
StoreError == "StoreError"

\* The static keys list of the options, and the list a keys function returns.
StaticKeys == <<"K1", "K2">>
FunctionKeys == <<"K2", "K1">>

\* What one call of the keys function does: it throws, or returns a list.
KeysOutcomes ==
  { [throws |-> TRUE, keys |-> <<>>], [throws |-> FALSE, keys |-> FunctionKeys] }

\* What the store does in one run of the loop over the keys: the call of
\* invalidateEntry for the n-th key throws (0: no call throws).
StoreOutcomes == 0..Len(StaticKeys)

\* options.keys: absent, a static list, or a function (result, ...args) => keys.
OptionsSet ==
  { [keys |-> "none", list |-> <<>>],
    [keys |-> "static", list |-> StaticKeys],
    [keys |-> "function", list |-> <<>>] }

\* The outcome of a promise: not settled, fulfilled with val, rejected with val.
Unsettled == [kind |-> "none", val |-> Undefined]
Fulfilled(v) == [kind |-> "ok", val |-> v]
Rejected(e) == [kind |-> "err", val |-> e]

VARIABLES
  options,      \* options[c]: the options controller c was constructed with
  mutation,     \* mutation[c]: the closure state of controller c:
                \*   status, data, error (the shallowRefs) and pendingPromise
                \*   (0 is null, i > 0 the promise of calls[i])
  resetSince,   \* resetSince[c]: history, reset() was called on controller c
                \*   after the last mutate() call on it
  calls         \* calls[i]: the i-th mutate() call and its promise chain:
                \*   c, args: the controller and the arguments;
                \*   pc: "pending" (user operation running), "settled" (.then
                \*     reaction queued), "then" (.catch reaction queued), "done";
                \*   op, chain, promise: the outcomes of the user operation's
                \*     promise, of the .then promise and of the returned promise;
                \*   opCalls: how often options.mutation was called for it;
                \*   keysCalls: the calls of the keys function made for it;
                \*   returned: the keys resolved for it;
                \*   invalidated: the store.invalidateEntry calls made for it;
                \*   observed: the controller's state when they were made;
                \*   lateThen, lateCatch: history, a newer mutate() call had
                \*     been made on the controller when its onFulfilled /
                \*     onRejected reaction ran.

vars == <<options, mutation, resetSince, calls>>

\* The controllers constructed, of those a run may construct.
ControllerIds == {1, 2}
Controllers == DOMAIN mutation

\* (A controller that starts out loading.)
InitialStateLoading ==
  [status |-> "loading", data |-> Undefined, error |-> Null, pendingPromise |-> 0]

\* Lines 94-99: the state of a freshly constructed controller.
InitialState ==
  [status |-> "pending", data |-> Undefined, error |-> Null, pendingPromise |-> 0]

\* Line 143: isLoading is computed from status.
isLoading(c) == mutation[c].status = "loading"

\* The calls made on controller c, and the last of them (0 if none).
CallsOf(c) == {i \in 1..Len(calls) : calls[i].c = c}
LastCallOf(c) == IF CallsOf(c) = {} THEN 0 ELSE CHOOSE i \in CallsOf(c) : \A j \in CallsOf(c) : j <= i
\* A newer mutate() call was made on the controller of call i.
Superseded(i) == \E j \in CallsOf(calls[i].c) : j > i

----------------------------------------------------------------------------
\* mutate(...args), lines 100-105 and 132: status becomes loading, the user
\* operation is called and the promise of the new chain becomes pendingPromise.
\* (A mutate() that keeps the promise of a call still noted as pending.)
MutateStateKeepsPending(st, promise) ==
  [st EXCEPT !.status = "loading",
             !.pendingPromise = IF st.pendingPromise = 0 THEN promise
                                ELSE st.pendingPromise]

MutateState(st, promise) ==
  [st EXCEPT !.status = "loading", !.pendingPromise = promise]

\* (Refs declared outside useMutation(): one state for all controllers.)
AfterMutateShared(m, c, promise) ==
  [d \in DOMAIN m |-> MutateState(m[d], promise)]

\* Lines 92-104: status and pendingPromise are locals of one useMutation()
\* call; mutate() assigns those of its own controller.
AfterMutate(m, c, promise) ==
  [m EXCEPT ![c] = MutateState(m[c], promise)]

Mutate(c) ==
  /\ c \in Controllers
  /\ Len(calls) < MaxCalls
  /\ LET promise == Len(calls) + 1 IN
     /\ mutation' = AfterMutate(mutation, c, promise)
     /\ calls' = Append(calls,
          [c |-> c, args |-> ArgsOf(promise), pc |-> "pending",
           op |-> Unsettled, chain |-> Unsettled, promise |-> Unsettled,
           opCalls |-> 1,
           keysCalls |-> <<>>, returned |-> <<>>, invalidated |-> <<>>,
           observed |-> InitialState,
           lateThen |-> FALSE, lateCatch |-> FALSE])
     /\ resetSince' = [resetSince EXCEPT ![c] = FALSE]
  /\ UNCHANGED options

\* The user operation's promise settles (the environment's step).
Settle(i, outcome) ==
  /\ i \in 1..Len(calls)
  /\ calls[i].pc = "pending"
  /\ calls' = [calls EXCEPT ![i].pc = "settled", ![i].op = outcome]
  /\ UNCHANGED <<options, mutation, resetSince>>

\* (Reactions that do not compare the promises.)
IsPendingAlways(st, promise) == TRUE

\* (Reactions that take every promise for a superseded one.)
IsPendingNever(st, promise) == FALSE

\* Lines 107 and 125: pendingPromise === promise.
IsPending(st, promise) == st.pendingPromise = promise

\* (A fulfilment that leaves the error of an earlier call in place.)
FulfilledStateKeepsError(st, _data) ==
  [st EXCEPT !.data = _data, !.status = "success"]

\* Lines 108-110.
FulfilledState(st, _data) ==
  [st EXCEPT !.data = _data, !.error = Null, !.status = "success"]

\* (A rejection that clears data.)
RejectedStateClearsData(st, _error) ==
  [st EXCEPT !.data = Undefined, !.error = _error, !.status = "error"]

\* Lines 126-127.
RejectedState(st, _error) ==
  [st EXCEPT !.error = _error, !.status = "error"]

\* (A reset that also forgets the pending promise.)
ResetStateDropsPending(st) ==
  [st EXCEPT !.data = Undefined, !.error = Null, !.status = "pending",
             !.pendingPromise = 0]

\* (A reset that keeps data.)
ResetStateKeepsData(st) ==
  [st EXCEPT !.error = Null, !.status = "pending"]

\* Lines 135-139.
ResetState(st) ==
  [st EXCEPT !.data = Undefined, !.error = Null, !.status = "pending"]

\* Lines 112-115: what the keys function is called with.
KeysArguments(i) == [result |-> calls[i].op.val, args |-> calls[i].args]

\* Lines 116-119: the keys submitted to store.invalidateEntry when the call
\* for the throwAt-th key throws (throwAt = 0: no call throws).
Submitted(keys, throwAt) ==
  IF throwAt = 0 THEN keys ELSE SubSeq(keys, 1, throwAt)

\* (An invalidation that runs before the state is assigned.)
StateSeenByStoreEarly(st, _data) == st

\* Lines 108-118: the state of the controller while the loop over the keys
\* runs; the three assignments come before it.
StateSeenByStore(st, _data) == FulfilledState(st, _data)

\* Lines 106-123: the .then reaction of a fulfilled user operation.
\*   fn: what the keys function does (one of KeysOutcomes);
\*   throwAt: which invalidateEntry call throws (0: none).
OnFulfilled(i, fn, throwAt) ==
  /\ i \in 1..Len(calls)
  /\ calls[i].pc = "settled"
  /\ calls[i].op.kind = "ok"
  /\ LET c == calls[i].c
         _data == calls[i].op.val
         current == IsPending(mutation[c], i)
         kind == options[c].keys
         invalidates == current /\ kind # "none"
         callsFn == invalidates /\ kind = "function"
         fnThrows == callsFn /\ fn.throws
         keys == IF ~invalidates \/ fnThrows THEN <<>>
                 ELSE IF kind = "function" THEN fn.keys ELSE options[c].list
         at == IF throwAt <= Len(keys) THEN throwAt ELSE 0
         chain == IF fnThrows THEN Rejected(KeysError)
                  ELSE IF at > 0 THEN Rejected(StoreError)
                  ELSE Fulfilled(_data)
     IN
     /\ mutation' = IF current
                    THEN [mutation EXCEPT ![c] = FulfilledState(mutation[c], _data)]
                    ELSE mutation
     /\ calls' = [calls EXCEPT
          ![i].pc = "then", ![i].chain = chain,
          ![i].keysCalls = IF callsFn THEN <<KeysArguments(i)>> ELSE <<>>,
          ![i].returned = keys,
          ![i].invalidated = Submitted(keys, at),
          ![i].observed = IF Submitted(keys, at) # <<>>
                          THEN StateSeenByStore(mutation[c], _data)
                          ELSE calls[i].observed,
          ![i].lateThen = Superseded(i)]
  /\ UNCHANGED <<options, resetSince>>

\* Line 106: .then() has no rejection handler, a rejection passes through.
ThenPassThrough(i) ==
  /\ i \in 1..Len(calls)
  /\ calls[i].pc = "settled"
  /\ calls[i].op.kind = "err"
  /\ calls' = [calls EXCEPT ![i].pc = "then", ![i].chain = calls[i].op]
  /\ UNCHANGED <<options, mutation, resetSince>>

\* (A rejection that calls the user operation again.)
RejectedCallRetries(call, _error, late) ==
  [call EXCEPT !.pc = "done", !.promise = Rejected(_error), !.lateCatch = late,
               !.opCalls = @ + 1]

\* Lines 124-130: what the .catch reaction does to the chain: it rethrows
\* _error, and does not call options.mutation again.
RejectedCall(call, _error, late) ==
  [call EXCEPT !.pc = "done", !.promise = Rejected(_error), !.lateCatch = late]

\* Lines 124-130: the .catch reaction of a rejected .then promise.
OnRejected(i) ==
  /\ i \in 1..Len(calls)
  /\ calls[i].pc = "then"
  /\ calls[i].chain.kind = "err"
  /\ LET c == calls[i].c
         _error == calls[i].chain.val
     IN
     /\ mutation' = IF IsPending(mutation[c], i)
                    THEN [mutation EXCEPT ![c] = RejectedState(mutation[c], _error)]
                    ELSE mutation
     /\ calls' = [calls EXCEPT ![i] = RejectedCall(calls[i], _error, Superseded(i))]
  /\ UNCHANGED <<options, resetSince>>

\* Line 124: .catch() passes a fulfilment through.
CatchPassThrough(i) ==
  /\ i \in 1..Len(calls)
  /\ calls[i].pc = "then"
  /\ calls[i].chain.kind = "ok"
  /\ calls' = [calls EXCEPT ![i].pc = "done", ![i].promise = calls[i].chain]
  /\ UNCHANGED <<options, mutation, resetSince>>

\* reset(), lines 135-139.
Reset(c) ==
  /\ c \in Controllers
  /\ mutation' = [mutation EXCEPT ![c] = ResetState(mutation[c])]
  /\ resetSince' = [resetSince EXCEPT ![c] = TRUE]
  /\ UNCHANGED <<options, calls>>

----------------------------------------------------------------------------
\* One controller, constructed with any of the three forms of options.keys.
Init ==
  /\ options \in [{1} -> OptionsSet]
  /\ mutation = [c \in {1} |-> InitialState]
  /\ resetSince = [c \in {1} |-> FALSE]
  /\ calls = <<>>

Next ==
  \/ \E c \in ControllerIds : Mutate(c)
  \/ \E i \in 1..MaxCalls : Settle(i, Fulfilled(ResultOf(i)))
  \/ \E i \in 1..MaxCalls : Settle(i, Rejected(ErrorOf(i)))
  \/ \E i \in 1..MaxCalls, fn \in KeysOutcomes, throwAt \in StoreOutcomes :
       OnFulfilled(i, fn, throwAt)
  \/ \E i \in 1..MaxCalls : ThenPassThrough(i)
  \/ \E i \in 1..MaxCalls : OnRejected(i)
  \/ \E i \in 1..MaxCalls : CatchPassThrough(i)
  \/ \E c \in ControllerIds : Reset(c)

Spec == Init /\ [][Next]_vars

\* Two controllers that use the same store (line 92): controller 1 with any
\* of the three forms of options.keys, controller 2 with a keys function.
\* Their runs make one mutate() call fewer than those of one controller.
MaxCallsShared == MaxCalls - 1

InitShared ==
  /\ options \in {o \in [{1, 2} -> OptionsSet] : o[2].keys = "function"}
  /\ mutation = [c \in {1, 2} |-> InitialState]
  /\ resetSince = [c \in {1, 2} |-> FALSE]
  /\ calls = <<>>

MutateShared(c) ==
  /\ Len(calls) < MaxCallsShared
  /\ Mutate(c)

NextShared ==
  \/ \E c \in ControllerIds : MutateShared(c)
  \/ \E i \in 1..MaxCalls : Settle(i, Fulfilled(ResultOf(i)))
  \/ \E i \in 1..MaxCalls : Settle(i, Rejected(ErrorOf(i)))
  \/ \E i \in 1..MaxCalls, fn \in KeysOutcomes, throwAt \in StoreOutcomes :
       OnFulfilled(i, fn, throwAt)
  \/ \E i \in 1..MaxCalls : ThenPassThrough(i)
  \/ \E i \in 1..MaxCalls : OnRejected(i)
  \/ \E i \in 1..MaxCalls : CatchPassThrough(i)
  \/ \E c \in ControllerIds : Reset(c)

SpecShared == InitShared /\ [][NextShared]_vars

\* Any step of the promise chain of call i (lines 104-130): the user
\* operation settles, or the reaction that is due next runs.
Progress(i) ==
  \/ Settle(i, Fulfilled(ResultOf(i)))
  \/ Settle(i, Rejected(ErrorOf(i)))
  \/ \E fn \in KeysOutcomes, throwAt \in StoreOutcomes : OnFulfilled(i, fn, throwAt)
  \/ ThenPassThrough(i)
  \/ OnRejected(i)
  \/ CatchPassThrough(i)

\* Every user operation settles in the end and the job queue runs every
\* reaction that is due: while some chain has a step to take, a chain takes
\* a step.  mutate() is called MaxCalls times at most, so every chain runs
\* to its end.
FairSpec == Spec /\ WF_vars(\E i \in 1..MaxCalls : Progress(i))

----------------------------------------------------------------------------
\* The claims.

\* The reaction that handles the outcome of call i's user operation has run:
\* onFulfilled for a fulfilment, onRejected for a rejection.
Handled(i) ==
  \/ calls[i].op.kind = "ok" /\ calls[i].pc \in {"then", "done"}
  \/ calls[i].op.kind = "err" /\ calls[i].pc = "done"

\* ... and a newer mutate() call had been made on the controller by then.
HandledLate(i) ==
  \/ calls[i].op.kind = "ok" /\ calls[i].lateThen
  \/ calls[i].op.kind = "err" /\ calls[i].lateCatch

\* Every promise chain of controller c has run to its end.
AllDone(c) == \A i \in CallsOf(c) : calls[i].pc = "done"

\* C1: last initiated wins.  When every call of a controller has settled and
\* no reset() was called after the last call B: if B's operation fulfilled
\* with v then data is v and error is no operation's rejection (status is
\* success and error absent when B's chain fulfilled); if it rejected with E
\* then status is error and error is E; and no call A that B (or a call before
\* B) superseded before A's outcome was handled has its result as data or its
\* rejection as error.
LastInitiatedWins ==
  \A c \in Controllers :
    LET B == LastCallOf(c)
        st == mutation[c]
    IN (B > 0 /\ AllDone(c) /\ ~resetSince[c]) =>
         /\ calls[B].op.kind = "ok" =>
              /\ st.data = calls[B].op.val
              /\ \A A \in CallsOf(c) : st.error # ErrorOf(A)
              /\ calls[B].chain.kind = "ok" => st.status = "success" /\ st.error = Null
         /\ calls[B].op.kind = "err" =>
              /\ st.status = "error"
              /\ st.error = calls[B].op.val
         /\ \A A \in CallsOf(c) \ {B} :
              HandledLate(A) => st.data # ResultOf(A) /\ st.error # ErrorOf(A)

\* C1 witness: call 1 was superseded by call 2, the two operations settled
\* with different kinds of outcome, call 2's outcome was handled before call
\* 1's (the reversed order), and both chains are done.
LastInitiatedWinsWitness ==
  /\ Len(calls) = 2
  /\ AllDone(1)
  /\ HandledLate(1)
  /\ calls[1].op.kind = "ok"
  /\ calls[2].op.kind = "err"
  /\ mutation[1].status = "error"
  /\ mutation[1].data = Undefined

\* C2: a reaction of a superseded call (a newer mutate() call was made on its
\* controller) leaves status, data and error, and pendingPromise, unchanged.
SupersededSettlementChangesNothing ==
  [][\A i \in 1..Len(calls) :
       (calls'[i].pc # calls[i].pc /\ Superseded(i)) => mutation' = mutation]_vars

\* C2 witness: a superseded fulfilment and a superseded rejection were both
\* handled, after the controller had recorded a later state.
SupersededSettlementWitness ==
  /\ Len(calls) = 3
  /\ calls[1].op.kind = "ok" /\ calls[1].lateThen /\ calls[1].pc = "done"
  /\ calls[2].op.kind = "err" /\ calls[2].lateCatch /\ calls[2].pc = "done"
  /\ mutation[1].status = "loading"

\* C3: for a call that was superseded when its fulfilment was handled, the
\* keys function was not called and store.invalidateEntry was not called.
SupersededNeverInvalidates ==
  \A i \in 1..Len(calls) :
    calls[i].lateThen => calls[i].keysCalls = <<>> /\ calls[i].invalidated = <<>>

\* C3 witness: a superseded call fulfilled on a controller that has keys,
\* while the call that superseded it did invalidate.
SupersededNeverInvalidatesWitness ==
  /\ Len(calls) >= 2
  /\ options[1].keys = "function"
  /\ calls[1].op.kind = "ok" /\ calls[1].lateThen /\ calls[1].pc = "done"
  /\ calls[2].invalidated # <<>>

\* C4: the promise a mutate() call returned settles as that call's user
\* operation did, with the same value or the same error.
ReturnedPromiseIsOwnOutcome ==
  \A i \in 1..Len(calls) :
    calls[i].pc = "done" => calls[i].promise = calls[i].op

\* C5: when the invalidation for the fulfilled last call of a controller has
\* failed and no reset() was called since, status is success and error is
\* absent.
InvalidationFailureKeepsSuccess ==
  \A c \in Controllers :
    LET i == LastCallOf(c) IN
      ( /\ i > 0
        /\ calls[i].op.kind = "ok"
        /\ calls[i].pc \in {"then", "done"}
        /\ calls[i].chain.kind = "err"
        /\ ~resetSince[c] )
      => mutation[c].status = "success" /\ mutation[c].error = Null

\* C6: with a static keys list, the invalidateEntry calls made for a call
\* whose fulfilment was handled while it was the last call are the listed
\* keys, once each and in list order, and none are made for a rejected call.
StaticKeysInvalidatedInOrder ==
  \A i \in 1..Len(calls) :
    (options[calls[i].c].keys = "static" /\ Handled(i)) =>
      /\ (calls[i].op.kind = "ok" /\ ~calls[i].lateThen) =>
           calls[i].invalidated = options[calls[i].c].list
      /\ calls[i].op.kind = "err" => calls[i].invalidated = <<>>

\* C7: with a keys function, for a call whose fulfilment was handled while it
\* was the last call, the function was called once, with the value the call's
\* operation fulfilled with and the call's arguments, and every key it
\* returned was passed to invalidateEntry once, in order.
FunctionKeysInvalidatedOnce ==
  \A i \in 1..Len(calls) :
    ( /\ options[calls[i].c].keys = "function"
      /\ Handled(i)
      /\ calls[i].op.kind = "ok"
      /\ ~calls[i].lateThen )
    => /\ calls[i].keysCalls = <<[result |-> calls[i].op.val, args |-> ArgsOf(i)]>>
       /\ calls[i].invalidated = calls[i].returned

\* C8: when onRejected handles the rejection E of the user operation of a call
\* that no newer call has superseded, status becomes error, error becomes E
\* and data keeps its value.
AuthoritativeRejection ==
  [][\A i \in 1..Len(calls) :
       ( /\ calls[i].pc = "then" /\ calls'[i].pc = "done"
         /\ calls[i].op.kind = "err"
         /\ ~Superseded(i) )
       => /\ mutation'[calls[i].c].status = "error"
          /\ mutation'[calls[i].c].error = calls[i].op.val
          /\ mutation'[calls[i].c].data = mutation[calls[i].c].data]_vars

\* C8 witness: call 2 failed after call 1 had succeeded; data is still the
\* result of call 1.
AuthoritativeRejectionWitness ==
  /\ Len(calls) = 2
  /\ calls[2].op.kind = "err" /\ calls[2].pc = "done"
  /\ ~resetSince[1]
  /\ mutation[1].status = "error"
  /\ mutation[1].error = ErrorOf(2)
  /\ mutation[1].data = ResultOf(1)

\* C9: a mutate() step leaves status at loading, with the user operation not
\* yet settled; and when onFulfilled handles the fulfilment v of a call that
\* no newer call has superseded, data becomes v, error absent and status
\* success.
MutateLoadsAndFulfilmentSucceeds ==
  [][/\ Len(calls') > Len(calls) =>
          /\ mutation'[calls'[Len(calls')].c].status = "loading"
          /\ calls'[Len(calls')].pc = "pending"
     /\ \A i \in 1..Len(calls) :
          ( /\ calls[i].pc = "settled" /\ calls'[i].pc = "then"
            /\ calls[i].op.kind = "ok"
            /\ ~Superseded(i) )
          => /\ mutation'[calls[i].c].data = calls[i].op.val
             /\ mutation'[calls[i].c].error = Null
             /\ mutation'[calls[i].c].status = "success"]_vars

\* C9 witness: call 1 failed, call 2 fulfilled and was handled: the error of
\* call 1 is gone.
MutateLoadsAndFulfilmentSucceedsWitness ==
  /\ Len(calls) = 2
  /\ calls[1].op.kind = "err" /\ calls[1].pc = "done" /\ ~calls[1].lateCatch
  /\ calls[2].op.kind = "ok" /\ calls[2].pc = "then"
  /\ ~resetSince[1]
  /\ mutation[1].status = "success"
  /\ mutation[1].data = ResultOf(2)
  /\ mutation[1].error = Null

\* C10: a reset() step (the only step that adds no call and moves no promise
\* chain) leaves status at its initial value, data undefined and error null.
ResetRestoresInitialState ==
  [][\A c \in Controllers :
       (calls' = calls /\ resetSince'[c]) =>
         /\ mutation'[c].status = InitialState.status
         /\ mutation'[c].data = Undefined
         /\ mutation'[c].error = Null]_vars

\* C10 witness: reset() was called while call 2 was loading, after call 1 had
\* succeeded.
ResetRestoresInitialStateWitness ==
  /\ Len(calls) = 2
  /\ calls[1].op.kind = "ok" /\ calls[1].pc = "done" /\ ~calls[1].lateThen
  /\ calls[2].pc = "pending"
  /\ resetSince[1]
  /\ mutation[1].status = "pending"
  /\ mutation[1].data = Undefined
  /\ mutation[1].error = Null

\* C11: reset() leaves pendingPromise alone, and after a reset() on a
\* controller a reaction that runs a handler (onFulfilled, or onRejected for
\* a rejected chain) changes the controller's state exactly when its call is
\* the last call made on the controller.
ResetKeepsAuthority ==
  [][/\ \A c \in Controllers :
          calls' = calls => mutation'[c].pendingPromise = mutation[c].pendingPromise
     /\ \A i \in 1..Len(calls) :
          ( /\ resetSince[calls[i].c]
            /\ \/ calls[i].pc = "settled" /\ calls'[i].pc = "then"
                  /\ calls[i].op.kind = "ok"
               \/ calls[i].pc = "then" /\ calls'[i].pc = "done"
                  /\ calls[i].chain.kind = "err" )
          => (mutation' # mutation <=> ~Superseded(i))]_vars

\* C11 witness: reset() was called while calls 1 and 2 were in flight; call
\* 1 then fulfilled and was discarded, call 2 fulfilled and set the state.
ResetKeepsAuthorityWitness ==
  /\ Len(calls) = 2
  /\ resetSince[1]
  /\ calls[1].op.kind = "ok" /\ calls[1].lateThen
  /\ calls[2].op.kind = "ok" /\ calls[2].pc = "then"
  /\ mutation[1].status = "success"
  /\ mutation[1].data = ResultOf(2)

\* C12: every change of status is one of the listed transitions: to loading
\* from pending, success or error; from loading to success; from loading to
\* error; to pending from any status.
StatusTransitionsListed ==
  [][\A c \in Controllers :
       LET old == mutation[c].status
           new == mutation'[c].status
       IN old # new =>
            \/ new = "loading" /\ old \in {"pending", "success", "error"}
            \/ new = "success" /\ old = "loading"
            \/ new = "error" /\ old = "loading"
            \/ new = "pending"]_vars

\* C13 as stated: data and error are mutually exclusive, so that no state
\* holds the result of an earlier call as data together with the rejection
\* of a later call as error.
NoDataWithLaterError ==
  \A c \in Controllers :
    \A i, j \in CallsOf(c) :
      i < j => ~(mutation[c].data = ResultOf(i) /\ mutation[c].error = ErrorOf(j))

\* C13 amended: whenever status is success or the initial pending, at most
\* one of data and error is present (error is absent).  After a rejection
\* data of an earlier success stays next to the error.
DataErrorExclusiveUnlessFailed ==
  \A c \in Controllers :
    mutation[c].status \in {"success", "pending"} =>
      (mutation[c].data = Undefined \/ mutation[c].error = Null)

\* C13 witness: call 1 succeeded, call 2 failed (data and error both
\* present), call 3 succeeded and cleared the error.
DataErrorExclusiveWitness ==
  /\ Len(calls) = 3
  /\ calls[1].op.kind = "ok" /\ ~calls[1].lateThen /\ calls[1].pc = "done"
  /\ calls[2].op.kind = "err" /\ ~calls[2].lateCatch /\ calls[2].pc = "done"
  /\ calls[3].op.kind = "ok" /\ calls[3].pc = "then"
  /\ mutation[1].status = "success"
  /\ mutation[1].data = ResultOf(3)
  /\ mutation[1].error = Null

\* C14: a controller on which mutate() was never called has the initial
\* pending status, data undefined, error null and isLoading false; and
\* isLoading is true exactly when status is loading.
IdleDefaultAndIsLoading ==
  \A c \in Controllers :
    /\ isLoading(c) <=> mutation[c].status = "loading"
    /\ CallsOf(c) = {} =>
         /\ mutation[c].status = "pending"
         /\ mutation[c].data = Undefined
         /\ mutation[c].error = Null
         /\ ~isLoading(c)

\* C14 witness: isLoading is true while the first call is running.
IdleDefaultAndIsLoadingWitness ==
  /\ Len(calls) = 1
  /\ calls[1].pc = "pending"
  /\ ~resetSince[1]
  /\ isLoading(1)

\* C15: options.mutation was called exactly once for every mutate() call,
\* whatever has happened to its chain since.
NoRetries ==
  \A i \in 1..Len(calls) : calls[i].opCalls = 1

\* C15 witness: a rejected call, a discarded superseded call and a fulfilled
\* call have all run to their end.
NoRetriesWitness ==
  /\ Len(calls) = 3
  /\ \A i \in 1..3 : calls[i].pc = "done"
  /\ calls[1].op.kind = "err" /\ ~calls[1].lateCatch
  /\ calls[2].op.kind = "ok" /\ calls[2].lateThen
  /\ calls[3].op.kind = "ok"

\* C17: whenever store.invalidateEntry was called for a call, the state of
\* its controller during the calls had status success, data equal to the
\* value the call's operation fulfilled with, and error null.
InvalidationAfterStateUpdate ==
  \A i \in 1..Len(calls) :
    calls[i].invalidated # <<>> =>
      /\ calls[i].observed.status = "success"
      /\ calls[i].observed.data = calls[i].op.val
      /\ calls[i].observed.error = Null

\* C17 witness: call 2 invalidated both static keys after call 1 had failed
\* and left its error.
InvalidationAfterStateUpdateWitness ==
  /\ Len(calls) = 2
  /\ options[1].keys = "static"
  /\ calls[1].op.kind = "err" /\ calls[1].pc = "done" /\ ~calls[1].lateCatch
  /\ calls[2].invalidated = StaticKeys

\* C18: whenever status is success, error is null and the last call made on
\* the controller has an operation that fulfilled, with data as its value.
SuccessIsLastCallsResult ==
  \A c \in Controllers :
    mutation[c].status = "success" =>
      /\ mutation[c].error = Null
      /\ LastCallOf(c) > 0
      /\ calls[LastCallOf(c)].op = Fulfilled(mutation[c].data)

\* C18 witness: status is success with the result of call 2 although call 1,
\* superseded, fulfilled after it.
SuccessIsLastCallsResultWitness ==
  /\ Len(calls) = 2
  /\ calls[2].op.kind = "ok" /\ calls[2].pc = "done"
  /\ calls[1].op.kind = "ok" /\ calls[1].lateThen /\ calls[1].pc = "then"
  /\ mutation[1].status = "success"
  /\ mutation[1].data = ResultOf(2)

ControllersIndependent ==
  [][/\ \A c \in Controllers :
          mutation'[c] # mutation[c] =>
            /\ \A i \in 1..Len(calls') :
                 (i > Len(calls) \/ calls'[i] # calls[i]) => calls'[i].c = c
            /\ \A d \in Controllers \ {c} :
                 mutation'[d] = mutation[d] /\ resetSince'[d] = resetSince[d]
     /\ \A c \in Controllers :
          LET mine == {i \in 1..Len(calls') : calls'[i].c = c} IN
            /\ mutation'[c].pendingPromise \in mine \cup {0}
            /\ \A i \in mine : i <= mutation'[c].pendingPromise]_vars

\* C16 witness: controller 2 called mutate(), reset() was called on it and
\* its call failed, all while call 1 of controller 1 was in flight; call 1
\* then fulfilled and set the state of controller 1.
ControllersIndependentWitness ==
  /\ DOMAIN mutation = {1, 2}
  /\ Len(calls) = 2
  /\ calls[1].c = 1 /\ calls[2].c = 2
  /\ calls[2].op.kind = "err" /\ calls[2].pc = "done"
  /\ resetSince[2] /\ ~resetSince[1]
  /\ calls[1].op.kind = "ok" /\ calls[1].pc = "then" /\ ~calls[1].lateThen
  /\ mutation[1].status = "success" /\ mutation[1].data = ResultOf(1)
  /\ mutation[2].status = "error" /\ mutation[2].error = ErrorOf(2)

====
